---- MODULE Spec2Model ----
(***************************************************************************)
(* libpbm: the netpbm image types (NetPBMFile, NetPGMFile, NetPPMFile,     *)
(* NetPAM), their construction API (new_*, set_pixel, get_pixel), the      *)
(* writers (to_ascii, to_raw) and the readers (load_pbm, load_pgm,         *)
(* load_ppm) of src/src/lib.rs.                                            *)
(*                                                                         *)
(* Bytes are integers 0..255 and a file or a string is a sequence of       *)
(* bytes.  Coordinates are 0-based as in the source; sequences are 1-based.*)
(* An Option is a sequence of length at most one: None == <<>>.            *)
(* A usize is held as its residue nearest to zero: a negative integer n    *)
(* stands for 2^64 + n, and the comparisons on usize are the unsigned ones.*)
(***************************************************************************)
EXTENDS Integers, Sequences, FiniteSets, TLC

VARIABLES
    overflow_checks, \* build profile: TRUE = arithmetic overflow panics (debug)
    img,             \* the image built through the construction API
    nwrites,         \* number of set_pixel calls made so far
    last_ok,         \* the last call was no set_pixel whose condition failed
    pc,              \* where the program is
    file,            \* the bytes of the file written or given
    ascii_comment,   \* the comment save_ascii was given (Option<&str>)
    loader,          \* which load_* function reads the file
    file_iter,       \* number of bytes of file consumed by file_iter
    passes,          \* load_*: parity of the number of passes of the header loop
    is_binary,       \* load_*: is_binary
    width,           \* load_*: width  (Option<usize>)
    height,          \* load_*: height (Option<usize>)
    max_val,         \* load_*: max_val
    loaded           \* the image load_* returned

vars == <<overflow_checks, img, nwrites, last_ok, pc, file, ascii_comment, loader,
          file_iter,
          passes, is_binary, width, height, max_val, loaded>>

---------------------------------------------------------------------------
\* Bounds of the model.

\* the widest image built
MaxWidth == 9
\* the tallest image built
MaxHeight == 3
\* the number of set_pixel calls made on one image
MaxWrites == 2
\* the number of header lines of a file given to load_*
MaxLines == 3
\* the number of payload bytes of a file given to load_*
MaxPayload == 4

---------------------------------------------------------------------------
\* Option, usize and byte helpers.

None == <<>>
Some(v) == <<v>>

Min(a, b) == IF a < b THEN a ELSE b

\* unsigned comparison of two usize values held as residues
ULt(a, b) ==
    IF (a < 0) = (b < 0) THEN a < b ELSE b < 0
UGe(a, b) == ~ULt(a, b)
UGt(a, b) == ULt(b, a)

\* a - b on usize overflows exactly when a < b (unsigned)
USubOverflows(a, b) == ULt(a, b)
\* a + b on usize, b small and non-negative, overflows when it passes 2^64
UAddOverflows(a, b) == a < 0 /\ a + b >= 0

Pow2(k) == CASE k = 0 -> 1 [] k = 1 -> 2 [] k = 2 -> 4 [] k = 3 -> 8
             [] k = 4 -> 16 [] k = 5 -> 32 [] k = 6 -> 64 [] k = 7 -> 128
             [] k = 8 -> 256 [] OTHER -> 65536

\* bit k of byte b
Bit(b, k) == (b \div Pow2(k)) % 2

\* b | (v << k) for a single bit v
OrBit(b, v, k) == IF v = 1 /\ Bit(b, k) = 0 THEN b + Pow2(k) ELSE b

RECURSIVE ConcatRange(_, _, _)
\* ss[lo] \o ... \o ss[hi], by halves
ConcatRange(ss, lo, hi) ==
    IF lo > hi THEN <<>>
    ELSE IF lo = hi THEN ss[lo]
    ELSE ConcatRange(ss, lo, (lo + hi) \div 2)
         \o ConcatRange(ss, (lo + hi) \div 2 + 1, hi)

\* the concatenation of a sequence of sequences ([..].concat(), flatten)
Concat(ss) == ConcatRange(ss, 1, Len(ss))

\* Vec<String>::join(sep)
Join(ss, sep) ==
    IF ss = <<>> THEN <<>>
    ELSE Concat([i \in 1..(2 * Len(ss) - 1) |->
                    IF i % 2 = 1 THEN ss[(i + 1) \div 2] ELSE sep])

RECURSIVE Dec(_)
\* format!("{}", n) of an unsigned integer: its decimal digits
Dec(n) == IF n < 10 THEN <<48 + n>> ELSE Dec(n \div 10) \o <<48 + (n % 10)>>

\* a format that pads on the right: "{:<len$}"
PadLeftBuggy(s, len) ==
    IF Len(s) >= len THEN s ELSE s \o [i \in 1..(len - Len(s)) |-> 32]
\* format!("{:>len$}", n): right-aligned, padded on the left with spaces
PadLeft(s, len) ==
    IF Len(s) >= len THEN s ELSE [i \in 1..(len - Len(s)) |-> 32] \o s

\* comment.replace("\n", "\n# ")
ReplaceNewlines(c) ==
    Concat([i \in 1..Len(c) |-> IF c[i] = 10 THEN <<10, 35, 32>> ELSE <<c[i]>>])

\* a comment_text that leaves the newlines of the comment as they are
CommentTextBuggy(comment) ==
    IF comment = None THEN <<>> ELSE <<10, 35, 32>> \o comment[1]
\* comment_text of to_ascii: "" or "\n# " + the comment with its newlines rewritten
CommentText(comment) ==
    IF comment = None THEN <<>> ELSE <<10, 35, 32>> \o ReplaceNewlines(comment[1])

---------------------------------------------------------------------------
\* The image types and the construction API.

PBM == "NetPBMFile"
PGM == "NetPGMFile"
PPM == "NetPPMFile"
PAM == "NetPAM"

\* the outcome of an operation that panicked
Panic == [class |-> "panic"]

TupleTypes == {"BlackAndWhite", "Grayscale", "RGB", "BlackAndWhiteAlpha",
               "GrayscaleAlpha", "RGBAlpha", "Custom"}

\* TupleType::get_depth; tt = [tag, depth, tuple_type]
get_depth(tt) ==
    CASE tt.tag = "BlackAndWhite" -> 1
      [] tt.tag = "Grayscale" -> 1
      [] tt.tag = "RGB" -> 3
      [] tt.tag = "BlackAndWhiteAlpha" -> 2
      [] tt.tag = "GrayscaleAlpha" -> 2
      [] tt.tag = "RGBAlpha" -> 4
      [] OTHER -> tt.depth

\* TupleType::get_tuple_type, as bytes
get_tuple_type(tt) ==
    CASE tt.tag = "BlackAndWhite" -> <<66,76,65,67,75,65,78,68,87,72,73,84,69>>
      [] tt.tag = "Grayscale" -> <<71,82,65,89,83,67,65,76,69>>
      [] tt.tag = "RGB" -> <<82,71,66>>
      [] tt.tag = "BlackAndWhiteAlpha" ->
            <<66,76,65,67,75,65,78,68,87,72,73,84,69,95,65,76,80,72,65>>
      [] tt.tag = "GrayscaleAlpha" -> <<71,82,65,89,83,67,65,76,69,95,65,76,80,72,65>>
      [] tt.tag = "RGBAlpha" -> <<82,71,66,95,65,76,80,72,65>>
      [] OTHER -> tt.tuple_type

\* vec![v; n]
Repeat(v, n) == [i \in 1..n |-> v]

new_pbm(w, h) ==
    [class |-> PBM, width |-> w, height |-> h,
     pixels |-> Repeat(Repeat(FALSE, w), h)]

new_pgm(w, h, m) ==
    [class |-> PGM, width |-> w, height |-> h, max_val |-> m,
     pixels |-> Repeat(Repeat(0, w), h)]

new_ppm(w, h, m) ==
    [class |-> PPM, width |-> w, height |-> h, max_val |-> m,
     pixels |-> Repeat(Repeat(<<0, 0, 0>>, w), h)]

new_pam(w, h, m, tt) ==
    [class |-> PAM, width |-> w, height |-> h, depth |-> get_depth(tt),
     max_val |-> m, tuple_type |-> tt,
     pixels |-> Repeat(Repeat(Repeat(0, get_depth(tt)), w), h)]

\* a write that indexes the first row whatever y is
IndexSetFirstRow(self, x, y, value) ==
    IF y < Len(self.pixels) /\ x < Len(self.pixels[1])
    THEN [self EXCEPT !.pixels[1][x + 1] = value]
    ELSE Panic
\* self.pixels[y][x] = value: the index is checked, out of range panics
IndexSet(self, x, y, value) ==
    IF y < Len(self.pixels) /\ x < Len(self.pixels[y + 1])
    THEN [self EXCEPT !.pixels[y + 1][x + 1] = value]
    ELSE Panic

\* self.pixels[y][x]: the index is checked, out of range panics
IndexGet(self, x, y) ==
    IF y < Len(self.pixels) /\ x < Len(self.pixels[y + 1])
    THEN Some(self.pixels[y + 1][x + 1])
    ELSE Panic

\* color.iter().all(|x| x <= &self.max_val)
AllInRange(color, m) == \A i \in 1..Len(color) : color[i] <= m

set_pixel_pbm(self, x, y, value) ==
    IF x < self.width /\ y < self.height
    THEN IndexSet(self, x, y, value) ELSE self

\* a set_pixel that does not compare the value with max_val
set_pixel_pgm_NoRange(self, x, y, value) ==
    IF x < self.width /\ y < self.height
    THEN IndexSet(self, x, y, value) ELSE self
\* NetPBM<NetPGMFile>::set_pixel
set_pixel_pgm(self, x, y, value) ==
    IF x < self.width /\ y < self.height /\ value <= self.max_val
    THEN IndexSet(self, x, y, value) ELSE self

set_pixel_ppm(self, x, y, color) ==
    IF x < self.width /\ y < self.height /\ AllInRange(color, self.max_val)
    THEN IndexSet(self, x, y, color) ELSE self

\* a set_pixel that does not compare the length of the colour with depth
set_pixel_pam_NoLen(self, x, y, color) ==
    IF x < self.width /\ y < self.height /\ AllInRange(color, self.max_val)
    THEN IndexSet(self, x, y, color) ELSE self
\* NetPAM::set_pixel
set_pixel_pam(self, x, y, color) ==
    IF x < self.width /\ y < self.height /\ Len(color) = self.depth
       /\ AllInRange(color, self.max_val)
    THEN IndexSet(self, x, y, color) ELSE self

\* get_pixel of the four types: the same guard and the same read
get_pixel(self, x, y) ==
    IF x < self.width /\ y < self.height THEN IndexGet(self, x, y) ELSE None

---------------------------------------------------------------------------
\* The writers: NetPBMSaver::to_ascii and to_raw, NetPAM::to_raw.

\* "<width> <height>\n"
DimsLine(self) == Dec(self.width) \o <<32>> \o Dec(self.height) \o <<10>>

\* "<max_val>\n"
MaxValLine(self) == Dec(self.max_val) \o <<10>>

\* format!("{}", self.max_val).len()
FieldLen(self) == Len(Dec(self.max_val))

\* the text of one row of a bitmap: format!("{}", u8::from(*pixel)) joined by " "
AsciiRowPBM(row) ==
    Join([i \in 1..Len(row) |-> Dec(IF row[i] THEN 1 ELSE 0)], <<32>>)

\* the text of one row of a graymap: format!("{:>len$}", pixel) joined by " "
AsciiRowPGM(row, len) ==
    Join([i \in 1..Len(row) |-> PadLeft(Dec(row[i]), len)], <<32>>)

\* the text of one row of a pixmap: "{:>len$} {:>len$} {:>len$}" joined by " "
AsciiRowPPM(row, len) ==
    Join([i \in 1..Len(row) |->
            PadLeft(Dec(row[i][1]), len) \o <<32>> \o
            PadLeft(Dec(row[i][2]), len) \o <<32>> \o
            PadLeft(Dec(row[i][3]), len)], <<32>>)

to_ascii_pbm(self, comment) ==
    <<80, 49>> \o CommentText(comment) \o <<10>> \o DimsLine(self)
    \o Join([r \in 1..Len(self.pixels) |-> AsciiRowPBM(self.pixels[r])], <<10>>)
    \o <<10>>

to_ascii_pgm(self, comment) ==
    <<80, 50>> \o CommentText(comment) \o <<10>> \o DimsLine(self)
    \o MaxValLine(self)
    \o Join([r \in 1..Len(self.pixels) |->
                AsciiRowPGM(self.pixels[r], FieldLen(self))], <<10>>)
    \o <<10>>

to_ascii_ppm(self, comment) ==
    <<80, 51>> \o CommentText(comment) \o <<10>> \o DimsLine(self)
    \o MaxValLine(self)
    \o Join([r \in 1..Len(self.pixels) |->
                AsciiRowPPM(self.pixels[r], FieldLen(self))], <<10>>)
    \o <<10>>

\* NetPBM::to_ascii: dispatch on the class
to_ascii(self, comment) ==
    CASE self.class = PBM -> to_ascii_pbm(self, comment)
      [] self.class = PGM -> to_ascii_pgm(self, comment)
      [] OTHER -> to_ascii_ppm(self, comment)

RECURSIVE PackRow(_, _, _, _)
\* the inner loop of NetPBMFile::to_raw from pixel i of row row_id on:
\*   if bits.len() <= row_id + i / 8 { bits.push(0) }
\*   bits[row_id + i / 8] |= u8::from(*v) << (7 - i % 8)
\* (the index is checked: past the end of bits it panics)
PackRow(bits, row, row_id, i) ==
    IF bits.panic \/ i >= Len(row) THEN bits
    ELSE LET k == row_id + (i \div 8)
             b1 == IF Len(bits.bytes) <= k THEN Append(bits.bytes, 0) ELSE bits.bytes
         IN IF k >= Len(b1) THEN [panic |-> TRUE, bytes |-> b1]
            ELSE PackRow([panic |-> FALSE,
                          bytes |-> [b1 EXCEPT ![k + 1] =
                             OrBit(@, IF row[i + 1] THEN 1 ELSE 0, 7 - (i % 8))]],
                         row, row_id, i + 1)

RECURSIVE PackRows(_, _, _)
\* the outer loop of NetPBMFile::to_raw from row row_id on
PackRows(bits, pixels, row_id) ==
    IF bits.panic \/ row_id >= Len(pixels) THEN bits
    ELSE PackRows(PackRow(bits, pixels[row_id + 1], row_id, 0), pixels, row_id + 1)

\* "P4\n<width> <height>\n"
RawHeaderPBM(self) == <<80, 52, 10>> \o DimsLine(self)

to_raw_pbm(self) ==
    LET bits == PackRows([panic |-> FALSE, bytes |-> <<>>], self.pixels, 0)
    IN IF bits.panic THEN Panic ELSE RawHeaderPBM(self) \o bits.bytes

\* a closure that writes the low byte first
SampleBytesBuggy(x, m) ==
    IF m > 255 THEN <<x % 256, (x \div 256) % 256>> ELSE <<x % 256>>
\* the closure of flat_map: one channel value as bytes
SampleBytes(x, m) ==
    IF m > 255 THEN <<(x \div 256) % 256, x % 256>> ELSE <<x % 256>>

\* .flat_map(..).collect() over a flat sequence of channel values
PackSamples(xs, m) == Concat([i \in 1..Len(xs) |-> SampleBytes(xs[i], m)])

\* "P5\n<width> <height>\n<max_val>\n"
RawHeaderPGM(self) == <<80, 53, 10>> \o DimsLine(self) \o MaxValLine(self)

to_raw_pgm(self) ==
    RawHeaderPGM(self) \o PackSamples(Concat(self.pixels), self.max_val)

\* "P6\n<width> <height>\n<max_val>\n"
RawHeaderPPM(self) == <<80, 54, 10>> \o DimsLine(self) \o MaxValLine(self)

to_raw_ppm(self) ==
    RawHeaderPPM(self) \o PackSamples(Concat(Concat(self.pixels)), self.max_val)

\* "P7\nWIDTH w\nHEIGHT h\nDEPTH d\nMAXVAL m\nTUPLTYPE t\nENDHDR\n"
RawHeaderPAM(self) ==
    <<80, 55, 10, 87, 73, 68, 84, 72, 32>> \o Dec(self.width)
    \o <<10, 72, 69, 73, 71, 72, 84, 32>> \o Dec(self.height)
    \o <<10, 68, 69, 80, 84, 72, 32>> \o Dec(self.depth)
    \o <<10, 77, 65, 88, 86, 65, 76, 32>> \o Dec(self.max_val)
    \o <<10, 84, 85, 80, 76, 84, 89, 80, 69, 32>> \o get_tuple_type(self.tuple_type)
    \o <<10, 69, 78, 68, 72, 68, 82, 10>>

to_raw_pam(self) ==
    RawHeaderPAM(self) \o PackSamples(Concat(Concat(self.pixels)), self.max_val)

\* NetPBM::to_raw / NetPAM::to_raw: dispatch on the class
to_raw(self) ==
    CASE self.class = PBM -> to_raw_pbm(self)
      [] self.class = PGM -> to_raw_pgm(self)
      [] self.class = PPM -> to_raw_ppm(self)
      [] OTHER -> to_raw_pam(self)

---------------------------------------------------------------------------
\* The readers: the pieces shared by load_pbm, load_pgm and load_ppm.

\* the binary magic each load_* compares the first two bytes with
BinaryMagic(ld) ==
    CASE ld = PBM -> <<80, 52>>
      [] ld = PGM -> <<80, 53>>
      [] OTHER -> <<80, 54>>

\* file_iter.by_ref().take(2).eq(magic): a file of fewer than two bytes
\* differs from the magic in length and no byte is consumed; otherwise
\* Iterator::eq stops at the first difference, so a first byte that differs
\* is the only byte consumed.  eq is the result, n the number of bytes consumed.
MagicEq(f, magic) ==
    IF Len(f) < 2 THEN [eq |-> FALSE, n |-> 0]
    ELSE IF f[1] # magic[1] THEN [eq |-> FALSE, n |-> 1]
    ELSE [eq |-> f[2] = magic[2], n |-> 2]

\* the first index >= i of s holding byte b, or Len(s) + 1
Find(s, b, i) ==
    IF \A j \in i..Len(s) : s[j] # b THEN Len(s) + 1
    ELSE CHOOSE j \in i..Len(s) : s[j] = b /\ \A k \in i..(j - 1) : s[k] # b

\* file_iter.by_ref().take_while(|x| x != &&10).collect() after n bytes were
\* consumed: the line, and the bytes consumed after it (the newline included)
TakeLine(f, n) ==
    LET e == Find(f, 10, n + 1)
    IN [line |-> SubSeq(f, n + 1, e - 1), n |-> Min(e, Len(f))]

RECURSIVE Split(_, _)
\* slice::split(|x| x == sep): at least one piece, empty pieces kept
Split(s, sep) ==
    LET e == Find(s, sep, 1)
    IN IF e > Len(s) THEN <<s>>
       ELSE <<SubSeq(s, 1, e - 1)>> \o Split(SubSeq(s, e + 1, Len(s)), sep)

\* a UTF-8 continuation byte
Cont(b) == b \in 128..191

\* the length in bytes of the UTF-8 character whose first byte is b
CharLen(b) == IF b < 128 THEN 1 ELSE IF b < 224 THEN 2 ELSE IF b < 240 THEN 3 ELSE 4

\* a well-formed UTF-8 character starts at s[i] and a character or the end
\* of s follows it
CharAt(s, i) ==
    LET b == s[i]
        k == CharLen(b)
    IN /\ b < 128 \/ b \in 194..244
       /\ i + k - 1 <= Len(s)
       /\ \A j \in (i + 1)..(i + k - 1) : Cont(s[j])
       /\ k >= 3 => s[i + 1] \in (CASE b = 224 -> 160..191
                                    [] b = 237 -> 128..159
                                    [] b = 240 -> 144..191
                                    [] b = 244 -> 128..143
                                    [] OTHER -> 128..191)
       /\ i + k <= Len(s) => ~Cont(s[i + k])

\* String::from_utf8(..) is Ok: the bytes that are not continuation bytes
\* are exactly the starts of well-formed characters
ValidUtf8(s) ==
    /\ s # <<>> => ~Cont(s[1])
    /\ \A i \in 1..Len(s) : ~Cont(s[i]) => CharAt(s, i)

RECURSIVE DigitsValue(_, _, _)
\* the value of a digit string, saturating at cap
DigitsValue(ds, acc, cap) ==
    IF ds = <<>> THEN acc
    ELSE DigitsValue(Tail(ds), Min(acc * 10 + (ds[1] - 48), cap), cap)

\* str::parse of an unsigned integer type with maximum m: an optional '+',
\* then one or more decimal digits; anything else, or a value above m, is Err
\* (None).  cap is m + 1.
ParseUnsigned(tok, cap) ==
    LET ds == IF tok # <<>> /\ tok[1] = 43 THEN Tail(tok) ELSE tok
    IN IF ds = <<>> \/ \E i \in 1..Len(ds) : ds[i] \notin 48..57 THEN None
       ELSE IF DigitsValue(ds, 0, cap) >= cap THEN None
       ELSE Some(DigitsValue(ds, 0, cap))

\* the largest digit string the model parses as usize stays below this
UsizeCap == 100000000

\* .parse::<usize>()
parse_usize(tok) == ParseUnsigned(tok, UsizeCap)

\* .parse::<u16>()
parse_u16(tok) == ParseUnsigned(tok, 65536)

\* a pass of the header loop that never replaces a width or height an
\* earlier line has set
HeaderLineKeepSet(f, n, w, h) ==
    LET tl == TakeLine(f, n)
        split == Split(tl.line, 32)
        t1 == split[1]
        t2 == split[2]
        w1 == IF w = None /\ ValidUtf8(t1) THEN parse_usize(t1) ELSE w
        h1 == IF h = None /\ Len(split) >= 2 /\ ValidUtf8(t2)
              THEN parse_usize(t2) ELSE h
    IN [panic |-> FALSE, n |-> tl.n, width |-> w1, height |-> h1]
\* a pass of the header loop that gives the first integers of the line, at
\* any position, to width and then height, and keeps what is already set
HeaderLineGreedy(f, n, w, h) ==
    LET tl == TakeLine(f, n)
        split == Split(tl.line, 32)
        nums == SelectSeq([i \in 1..Len(split) |->
                              IF ValidUtf8(split[i]) THEN parse_usize(split[i])
                              ELSE None], LAMBDA o : o # None)
        w1 == IF w = None /\ Len(nums) >= 1 THEN nums[1] ELSE w
        rest == IF w = None /\ Len(nums) >= 1 THEN Tail(nums) ELSE nums
        h1 == IF h = None /\ w1 # None /\ Len(rest) >= 1 THEN rest[1] ELSE h
    IN [panic |-> FALSE, n |-> tl.n, width |-> w1, height |-> h1]
\* one pass of the header loop `while width.is_none() || height.is_none()`
\* with n bytes consumed: the line is split on single spaces, the first piece
\* sets width if it parses, the second sets height if it parses; a piece
\* that is not UTF-8 panics.
HeaderLine(f, n, w, h) ==
    LET tl == TakeLine(f, n)
        split == Split(tl.line, 32)
        t1 == split[1]
        w1 == IF ValidUtf8(t1) /\ parse_usize(t1) # None THEN parse_usize(t1) ELSE w
    IN IF ~ValidUtf8(t1) THEN [panic |-> TRUE, n |-> tl.n, width |-> w, height |-> h]
       ELSE IF Len(split) < 2 THEN [panic |-> FALSE, n |-> tl.n, width |-> w1, height |-> h]
       ELSE LET t2 == split[2]
                h1 == IF ValidUtf8(t2) /\ parse_usize(t2) # None
                      THEN parse_usize(t2) ELSE h
            IN IF ~ValidUtf8(t2)
               THEN [panic |-> TRUE, n |-> tl.n, width |-> w1, height |-> h]
               ELSE [panic |-> FALSE, n |-> tl.n, width |-> w1, height |-> h1]

\* let max_val = String::from_utf8(<next line>).unwrap().parse().unwrap()
ReadMaxValLine(f, n) ==
    LET tl == TakeLine(f, n)
    IN IF ~ValidUtf8(tl.line) \/ parse_u16(tl.line) = None
       THEN [panic |-> TRUE, n |-> tl.n, max_val |-> 0]
       ELSE [panic |-> FALSE, n |-> tl.n, max_val |-> parse_u16(tl.line)[1]]

---------------------------------------------------------------------------
\* The readers: the payload loops.  A loop state is
\* [pixels, num_bits, temp, idx]; ctx is [width, height, max_val, checks].

\* the length of the White_Space character at s[i], or 0 if there is none
WsLen(s, i) ==
    LET b == s[i]
    IN IF b \in 9..13 \/ b = 32 THEN 1
       ELSE IF b = 194 /\ s[i + 1] \in {133, 160} THEN 2
       ELSE IF b = 225 /\ s[i + 1] = 154 /\ s[i + 2] = 128 THEN 3
       ELSE IF b = 226 /\ s[i + 1] = 128 /\ s[i + 2] \in (128..138) \cup {168, 169, 175}
            THEN 3
       ELSE IF b = 226 /\ s[i + 1] = 129 /\ s[i + 2] = 159 THEN 3
       ELSE IF b = 227 /\ s[i + 1] = 128 /\ s[i + 2] = 128 THEN 3
       ELSE 0

\* byte i of s belongs to a White_Space character
IsWsByte(s, i) ==
    \E j \in (i - 2)..i : j >= 1 /\ WsLen(s, j) > i - j

RECURSIVE WordsIn(_, _, _)
\* the words of s that start in lo..hi, in order, by halves: a word starts at
\* a byte that is not whitespace and follows whitespace or the start of s, and
\* runs up to the next whitespace byte
WordsIn(s, lo, hi) ==
    IF lo > hi THEN <<>>
    ELSE IF lo = hi
         THEN IF ~IsWsByte(s, lo) /\ (lo = 1 \/ IsWsByte(s, lo - 1))
              THEN <<SubSeq(s, lo,
                       (CHOOSE e \in lo..Len(s) :
                           /\ \A k \in lo..e : ~IsWsByte(s, k)
                           /\ (e = Len(s) \/ IsWsByte(s, e + 1))))>>
              ELSE <<>>
    ELSE WordsIn(s, lo, (lo + hi) \div 2) \o WordsIn(s, (lo + hi) \div 2 + 1, hi)

\* str::split_whitespace of valid UTF-8
split_whitespace(s) == WordsIn(s, 1, Len(s))

\* pixels[len - 1].push(v)
PushLast(pixels, v) == [pixels EXCEPT ![Len(pixels)] = Append(@, v)]

\* pixels[len - 1] extended by several values
ExtendLast(pixels, vs) == [pixels EXCEPT ![Len(pixels)] = @ \o vs]

\* the head of every payload loop:
\*   if num_bits > limit && pixels.len() < height { pixels.push(vec![]); num_bits = 0 }
\*   else { num_bits += step }
\* (the ascii loops of load_pgm and load_ppm compare with >=: strict = FALSE)
RowHead(st, limit, strict, step, ctx) ==
    IF (IF strict THEN UGt(st.num_bits, limit) ELSE UGe(st.num_bits, limit))
       /\ Len(st.pixels) < ctx.height
    THEN [st EXCEPT !.pixels = Append(@, <<>>), !.num_bits = 0]
    ELSE IF UAddOverflows(st.num_bits, step) /\ ctx.checks THEN Panic
    ELSE [st EXCEPT !.num_bits = @ + step]

\* load_pbm, binary: the eight tests `num_bits - width >= k` each push one bit,
\* most significant first; the subtraction overflows when num_bits < width
StepPbmBinary(st, byte, ctx) ==
    LET s1 == RowHead(st, ctx.width, TRUE, 8, ctx)
    IN IF s1 = Panic THEN Panic
       ELSE IF USubOverflows(s1.num_bits, ctx.width) /\ ctx.checks THEN Panic
       ELSE LET d == s1.num_bits - ctx.width
                taken == {k \in 1..8 : UGe(d, k)}
                bits == [k \in 1..Cardinality(taken) |-> Bit(byte, 8 - k) = 1]
            IN [s1 EXCEPT !.pixels = ExtendLast(@, bits)]

\* load_pbm, ascii: every byte counts, '0' and '1' push a pixel
StepPbmAscii(st, byte, ctx) ==
    LET s1 == RowHead(st, ctx.width, TRUE, 1, ctx)
    IN IF s1 = Panic THEN Panic
       ELSE IF byte = 48 THEN [s1 EXCEPT !.pixels = PushLast(@, FALSE)]
       ELSE IF byte = 49 THEN [s1 EXCEPT !.pixels = PushLast(@, TRUE)]
       ELSE s1

\* temp + *byte as u16 on u16: overflow panics or wraps
AddU16(a, b, checks) ==
    IF a + b > 65535 THEN (IF checks THEN None ELSE Some((a + b) % 65536))
    ELSE Some(a + b)

\* load_pgm, binary
StepPgmBinary(st, byte, ctx) ==
    LET s1 == RowHead(st, ctx.width * (IF ctx.max_val > 255 THEN 2 ELSE 1),
                      TRUE, 1, ctx)
    IN IF s1 = Panic THEN Panic
       ELSE IF ctx.max_val > 255
       THEN IF s1.num_bits % 2 = 1
            THEN [s1 EXCEPT !.temp = byte * 256]
            ELSE LET sum == AddU16(s1.temp, byte, ctx.checks)
                 IN IF sum = None THEN Panic
                    ELSE [s1 EXCEPT !.temp = sum[1], !.pixels = PushLast(@, sum[1])]
       ELSE [s1 EXCEPT !.pixels = PushLast(@, byte)]

\* num_bits -= 1 on usize: overflow panics or wraps
Decrement(st, ctx) ==
    IF USubOverflows(st.num_bits, 1) /\ ctx.checks THEN Panic
    ELSE [st EXCEPT !.num_bits = @ - 1]

\* load_pgm, ascii: a word that parses is pushed, another gives its count back
StepPgmAscii(st, word, ctx) ==
    LET s1 == RowHead(st, ctx.width, FALSE, 1, ctx)
    IN IF s1 = Panic THEN Panic
       ELSE IF parse_u16(word) # None
       THEN [s1 EXCEPT !.pixels = PushLast(@, parse_u16(word)[1])]
       ELSE Decrement(s1, ctx)

\* if idx == 3 { pixels[len - 1].push(temp); idx = 0 }
PushTriple(st) ==
    IF st.idx = 3 THEN [st EXCEPT !.pixels = PushLast(@, st.temp), !.idx = 0]
    ELSE st

\* load_ppm, binary
StepPpmBinary(st, byte, ctx) ==
    LET s1 == RowHead(st, ctx.width * (IF ctx.max_val > 255 THEN 6 ELSE 3),
                      TRUE, 1, ctx)
    IN IF s1 = Panic THEN Panic
       ELSE IF ctx.max_val > 255
       THEN IF s1.num_bits % 2 = 1
            THEN PushTriple([s1 EXCEPT !.temp[s1.idx + 1] = byte * 256])
            ELSE LET sum == AddU16(s1.temp[s1.idx + 1], byte, ctx.checks)
                 IN IF sum = None THEN Panic
                    ELSE PushTriple([s1 EXCEPT !.temp[s1.idx + 1] = sum[1],
                                               !.idx = @ + 1])
       ELSE PushTriple([s1 EXCEPT !.temp[s1.idx + 1] = byte, !.idx = @ + 1])

\* load_ppm, ascii
StepPpmAscii(st, word, ctx) ==
    LET s1 == RowHead(st, ctx.width * 3, FALSE, 1, ctx)
    IN IF s1 = Panic THEN Panic
       ELSE IF parse_u16(word) # None
       THEN PushTriple([s1 EXCEPT !.temp[s1.idx + 1] = parse_u16(word)[1],
                                  !.idx = @ + 1])
       ELSE Decrement(s1, ctx)

\* one pass of the payload loop of loader ld
PayloadStep(ld, binary, st, x, ctx) ==
    CASE ld = PBM /\ binary -> StepPbmBinary(st, x, ctx)
      [] ld = PBM /\ ~binary -> StepPbmAscii(st, x, ctx)
      [] ld = PGM /\ binary -> StepPgmBinary(st, x, ctx)
      [] ld = PGM /\ ~binary -> StepPgmAscii(st, x, ctx)
      [] ld = PPM /\ binary -> StepPpmBinary(st, x, ctx)
      [] OTHER -> StepPpmAscii(st, x, ctx)

RECURSIVE PayloadLoop(_, _, _, _, _, _, _)
\* the payload loop over the items xs[lo..hi] (bytes or words) in order,
\* evaluated by halves; a panic ends it
PayloadLoop(ld, binary, st, xs, lo, hi, ctx) ==
    IF st = Panic THEN Panic
    ELSE IF lo > hi THEN st
    ELSE IF lo = hi THEN PayloadStep(ld, binary, st, xs[lo], ctx)
    ELSE PayloadLoop(ld, binary,
                     PayloadLoop(ld, binary, st, xs, lo, (lo + hi) \div 2, ctx),
                     xs, (lo + hi) \div 2 + 1, hi, ctx)

\* let mut pixels = vec![vec![]]; let mut num_bits = 0; temp; idx
PayloadInit(ld) ==
    [pixels |-> <<<<>>>>, num_bits |-> 0,
     temp |-> IF ld = PPM THEN <<0, 0, 0>> ELSE 0, idx |-> 0]

\* the payload of load_*: the rest of the file after n bytes, read by bytes,
\* or (ascii, load_pgm and load_ppm) as the words of its UTF-8 text;
\* the loop's final state, or Panic
ReadPayload(ld, binary, f, n, ctx) ==
    LET rest == SubSeq(f, n + 1, Len(f))
    IN IF binary \/ ld = PBM
       THEN PayloadLoop(ld, binary, PayloadInit(ld), rest, 1, Len(rest), ctx)
       ELSE IF ~ValidUtf8(rest) THEN Panic
       ELSE LET ws == split_whitespace(rest)
            IN PayloadLoop(ld, binary, PayloadInit(ld), ws, 1, Len(ws), ctx)

\* the value load_* returns: NetPBM { class: .. { width, height, max_val, pixels } }
Returned(ld, w, h, m, pixels) ==
    IF ld = PBM THEN [class |-> PBM, width |-> w, height |-> h, pixels |-> pixels]
    ELSE [class |-> ld, width |-> w, height |-> h, max_val |-> m, pixels |-> pixels]

---------------------------------------------------------------------------
\* The inputs the model draws from.

\* image sizes given to the constructors
Widths == {0, 2, MaxWidth}
Heights == {0, 2, MaxHeight}
\* max_val given to the constructors
MaxVals == {1, 255, 65535}
\* tuple types given to NetPAM::new
PamTypes ==
    {[tag |-> "RGB", depth |-> 0, tuple_type |-> <<>>],
     [tag |-> "GrayscaleAlpha", depth |-> 0, tuple_type |-> <<>>],
     [tag |-> "Custom", depth |-> 5, tuple_type |-> <<88, 89>>]}

\* x and y given to set_pixel: the first and last columns and rows, a byte
\* boundary, and the first coordinate out of bounds
XArgs(w) == {x \in {0, 7, w - 1, w} : x >= 0}
YArgs(h) == {y \in {0, h - 1, h} : y >= 0}
\* a sample given to set_pixel
SampleArgs == {0, 1, 255, 256, 65535}
\* a colour given to NetPBM<NetPPMFile>::set_pixel
ColorArgs == {<<0, 0, 0>>, <<1, 0, 1>>, <<0, 255, 1>>, <<256, 255, 0>>, <<1, 256, 65535>>}
\* a colour given to NetPAM::set_pixel: any length
PamColorArgs ==
    {<<>>, <<1>>, <<1, 255>>, <<256, 1>>, <<1, 0, 255>>, <<255, 65535, 256>>,
     <<1, 2, 3, 4>>, <<1, 0, 255, 0, 1>>, <<0, 256, 0, 65535, 1>>}

\* a comment given to save_ascii: none, "hi", "a\nb", "" and "7 8\n\n9"
CommentArgs ==
    {None, Some(<<104, 105>>), Some(<<97, 10, 98>>), Some(<<>>),
     Some(<<55, 32, 56, 10, 10, 57>>)}

\* all sequences over S of length at most n
SeqsUpTo(S, n) == UNION {[1..k -> S] : k \in 0..n}

\* header lines of a file given to load_*:
\* "", "7 9", "7", "9", "# 5", "2 1 3", and a line that is not UTF-8
LineVocab ==
    {<<>>, <<55, 32, 57>>, <<55>>, <<57>>, <<35, 32, 53>>, <<50, 32, 49, 32, 51>>,
     <<255>>}
\* what follows the header lines: nothing, or "1\n0 1"
TailVocab == {<<>>, <<49, 10, 48, 32, 49>>}
\* payload bytes of a file given to load_*: '1', ' ', 'x', 0xFF
PayloadBytes == {49, 32, 120, 255}
\* the magic of a file given to loader ld: its binary magic or its ascii magic
Magics(ld) == {BinaryMagic(ld), <<80, BinaryMagic(ld)[2] - 3>>}
\* the lines between the magic and the payload of a well-formed file
GoodHeaders(ld) ==
    {<<10>> \o d \o <<10>> \o m :
        d \in {<<49, 32, 50>>, <<50, 32, 49>>},
        m \in IF ld = PBM THEN {<<>>} ELSE {<<49, 10>>, <<57, 57, 57, 10>>}}

\* files of one byte: "7", "P" and a byte that is not UTF-8
OneByteFiles == {<<55>>, <<80>>, <<255>>}

\* files of one byte or of arbitrary header lines given to loader ld
HeaderFiles(ld) ==
    OneByteFiles
    \cup
    {mg \o Concat([i \in 1..Len(ls) |-> ls[i] \o <<10>>]) \o t :
        mg \in Magics(ld), ls \in SeqsUpTo(LineVocab, MaxLines), t \in TailVocab}

\* files given to loader ld: arbitrary header lines, or a well-formed header
\* and an arbitrary payload
Files(ld) ==
    HeaderFiles(ld)
    \cup
    {mg \o hd \o p :
        mg \in Magics(ld), hd \in GoodHeaders(ld), p \in SeqsUpTo(PayloadBytes, MaxPayload)}

---------------------------------------------------------------------------
\* The program: an image is constructed, written to by set_pixel, saved with
\* to_raw and read back by the load_* of its type (src/src/main.rs).

NoImage == [class |-> "none"]

InitLoader ==
    /\ file_iter = 0
    /\ passes = 0
    /\ is_binary = FALSE
    /\ width = None
    /\ height = None
    /\ max_val = 0
    /\ loaded = NoImage

Init ==
    /\ overflow_checks \in BOOLEAN
    /\ img \in {new_pbm(w, h) : w \in Widths, h \in Heights}
            \cup {new_pgm(w, h, m) : w \in Widths, h \in Heights, m \in MaxVals}
            \cup {new_ppm(w, h, m) : w \in Widths, h \in Heights, m \in MaxVals}
            \cup {new_pam(w, h, m, tt) :
                    w \in Widths, h \in Heights, m \in MaxVals, tt \in PamTypes}
    /\ nwrites = 0
    /\ last_ok = TRUE
    /\ pc = "api"
    /\ file = <<>>
    /\ ascii_comment = None
    /\ loader = "none"
    /\ InitLoader

\* the channel values of a set_pixel argument of an image of class c
ArgChannels(c, v) ==
    CASE c = PBM -> <<IF v THEN 1 ELSE 0>>
      [] c = PGM -> <<v>>
      [] OTHER -> v

\* the largest sample value of an image (1 for a bitmap)
MaxValOf(self) == IF self.class = PBM THEN 1 ELSE self.max_val

\* the condition of set_pixel: the arguments are inside the image, no
\* channel exceeds max_val and a NetPAM colour has exactly depth values
ArgsOk(self, x, y, v) ==
    /\ x < self.width
    /\ y < self.height
    /\ \A i \in 1..Len(ArgChannels(self.class, v)) :
          ArgChannels(self.class, v)[i] <= MaxValOf(self)
    /\ self.class = PAM => Len(v) = self.depth

\* the image after a set_pixel call, or the panic it raised
AfterCall(r, ok) ==
    /\ nwrites' = nwrites + 1
    /\ last_ok' = ok
    /\ IF r = Panic THEN img' = img /\ pc' = "panicked" ELSE img' = r /\ pc' = pc
    /\ UNCHANGED <<ascii_comment, passes, overflow_checks, file, loader,
                   file_iter, is_binary, width, height, max_val, loaded>>

SetPixelPBM(x, y, value) ==
    /\ pc = "api" /\ img.class = PBM /\ nwrites < MaxWrites
    /\ AfterCall(set_pixel_pbm(img, x, y, value), ArgsOk(img, x, y, value))

SetPixelPGM(x, y, value) ==
    /\ pc = "api" /\ img.class = PGM /\ nwrites < MaxWrites
    /\ AfterCall(set_pixel_pgm(img, x, y, value), ArgsOk(img, x, y, value))

SetPixelPPM(x, y, color) ==
    /\ pc = "api" /\ img.class = PPM /\ nwrites < MaxWrites
    /\ AfterCall(set_pixel_ppm(img, x, y, color), ArgsOk(img, x, y, color))

SetPixelPAM(x, y, color) ==
    /\ pc = "api" /\ img.class = PAM /\ nwrites < MaxWrites
    /\ AfterCall(set_pixel_pam(img, x, y, color), ArgsOk(img, x, y, color))

\* save_raw: the file holds to_raw(); load_* exists for the three NetPBM types
SaveRaw ==
    /\ pc = "api"
    /\ file' = to_raw(img)
    /\ loader' = IF img.class = PAM THEN "none" ELSE img.class
    /\ pc' = "saved"
    /\ last_ok' = TRUE
    /\ UNCHANGED <<ascii_comment, passes, overflow_checks, img, nwrites,
                   file_iter, is_binary, width, height, max_val, loaded>>

\* save_ascii: the file holds to_ascii(comment); NetPAM has no text form
SaveAscii(c) ==
    /\ pc = "api" /\ img.class # PAM
    /\ file' = to_ascii(img, c)
    /\ ascii_comment' = c
    /\ loader' = img.class
    /\ pc' = "saved_ascii"
    /\ last_ok' = TRUE
    /\ UNCHANGED <<passes, overflow_checks, img, nwrites, file_iter,
                   is_binary, width, height, max_val, loaded>>

\* load_*: the file is read and its first two bytes compared with the magic
LoadStart ==
    /\ pc = "saved" /\ loader # "none"
    /\ is_binary' = MagicEq(file, BinaryMagic(loader)).eq
    /\ file_iter' = MagicEq(file, BinaryMagic(loader)).n
    /\ pc' = "header"
    /\ UNCHANGED <<ascii_comment, passes, overflow_checks, img, nwrites,
                   last_ok, file, loader, width, height, max_val, loaded>>

\* load_*: one pass of `while width.is_none() || height.is_none()`
ReadHeaderLine ==
    /\ pc = "header" /\ (width = None \/ height = None)
    /\ LET r == HeaderLine(file, file_iter, width, height)
       IN /\ file_iter' = r.n
          /\ width' = r.width
          /\ height' = r.height
          /\ pc' = IF r.panic THEN "panicked"
                   ELSE IF r.width = None \/ r.height = None THEN "header"
                   ELSE IF loader = PBM THEN "payload" ELSE "maxval"
          /\ passes' = IF r.panic \/ (r.width # None /\ r.height # None) THEN 0
                       ELSE 1 - passes
    /\ UNCHANGED <<ascii_comment, overflow_checks, img, nwrites, last_ok,
                   file, loader, is_binary, max_val, loaded>>

\* load_pgm, load_ppm: the max_val line
ReadMaxVal ==
    /\ pc = "maxval"
    /\ LET r == ReadMaxValLine(file, file_iter)
       IN /\ file_iter' = r.n
          /\ max_val' = r.max_val
          /\ pc' = IF r.panic THEN "panicked" ELSE "payload"
    /\ UNCHANGED <<ascii_comment, passes, overflow_checks, img, nwrites,
                   last_ok, file, loader, is_binary, width, height, loaded>>

\* load_*: the payload loop and the return
ReadPixels ==
    /\ pc = "payload"
    /\ LET ctx == [width |-> width[1], height |-> height[1], max_val |-> max_val,
                   checks |-> overflow_checks]
           st == ReadPayload(loader, is_binary, file, file_iter, ctx)
       IN IF st = Panic
          THEN pc' = "panicked" /\ loaded' = loaded
          ELSE /\ pc' = "returned"
               /\ loaded' = Returned(loader, width[1], height[1], max_val, st.pixels)
    /\ file_iter' = Len(file)
    /\ UNCHANGED <<ascii_comment, passes, overflow_checks, img, nwrites,
                   last_ok, file, loader, is_binary, width, height, max_val>>

Next ==
    \/ \E x \in XArgs(img.width), y \in YArgs(img.height), v \in BOOLEAN :
          SetPixelPBM(x, y, v)
    \/ \E x \in XArgs(img.width), y \in YArgs(img.height), v \in SampleArgs :
          SetPixelPGM(x, y, v)
    \/ \E x \in XArgs(img.width), y \in YArgs(img.height), c \in ColorArgs :
          SetPixelPPM(x, y, c)
    \/ \E x \in XArgs(img.width), y \in YArgs(img.height), c \in PamColorArgs :
          SetPixelPAM(x, y, c)
    \/ SaveRaw
    \/ LoadStart
    \/ ReadHeaderLine
    \/ ReadMaxVal
    \/ ReadPixels

Spec == Init /\ [][Next]_vars

\* the construction API alone: new_* and set_pixel.  Nothing in it can
\* overflow, so one build profile stands for both.
InitApi == Init /\ ~overflow_checks

NextApi ==
    \/ \E x \in XArgs(img.width), y \in YArgs(img.height), v \in BOOLEAN :
          SetPixelPBM(x, y, v)
    \/ \E x \in XArgs(img.width), y \in YArgs(img.height), v \in SampleArgs :
          SetPixelPGM(x, y, v)
    \/ \E x \in XArgs(img.width), y \in YArgs(img.height), c \in ColorArgs :
          SetPixelPPM(x, y, c)
    \/ \E x \in XArgs(img.width), y \in YArgs(img.height), c \in PamColorArgs :
          SetPixelPAM(x, y, c)

ApiSpec == InitApi /\ [][NextApi]_vars

\* the image types that have a text form, written to and saved by save_ascii
InitAscii == InitApi /\ img.class # PAM

NextAscii ==
    \/ \E x \in XArgs(img.width), y \in YArgs(img.height), v \in BOOLEAN :
          SetPixelPBM(x, y, v)
    \/ \E x \in XArgs(img.width), y \in YArgs(img.height), v \in SampleArgs :
          SetPixelPGM(x, y, v)
    \/ \E x \in XArgs(img.width), y \in YArgs(img.height), c \in ColorArgs :
          SetPixelPPM(x, y, c)
    \/ \E c \in CommentArgs : SaveAscii(c)

AsciiSpec == InitAscii /\ [][NextAscii]_vars

\* the loaders of the NetPBM types
Loaders == {PBM, PGM, PPM}

\* load_* called on a file that some other program wrote, one of F[loader]
InitLoadFrom(F) ==
    /\ overflow_checks \in BOOLEAN
    /\ img = NoImage
    /\ nwrites = 0
    /\ last_ok = TRUE
    /\ pc = "saved"
    /\ loader \in Loaders
    /\ file \in F[loader]
    /\ ascii_comment = None
    /\ InitLoader

InitLoad == InitLoadFrom([ld \in Loaders |-> Files(ld)])

NextLoad ==
    \/ LoadStart
    \/ ReadHeaderLine
    \/ ReadMaxVal
    \/ ReadPixels

LoadSpec == InitLoad /\ [][NextLoad]_vars

\* load_* called on files of arbitrary header lines.  The header loop has no
\* arithmetic that can overflow, so one build profile stands for both.
InitHeader == InitLoadFrom([ld \in Loaders |-> HeaderFiles(ld)]) /\ ~overflow_checks

HeaderSpec == InitHeader /\ [][NextLoad]_vars

\* files of one byte, files whose header is at most one line after the
\* magic, or well formed and followed by at most one payload byte
ShortFiles(ld) ==
    OneByteFiles
    \cup
    {mg \o Concat([i \in 1..Len(ls) |-> ls[i] \o <<10>>]) \o t :
        mg \in Magics(ld), ls \in SeqsUpTo(LineVocab, 1), t \in TailVocab}
    \cup
    {mg \o hd \o p :
        mg \in Magics(ld), hd \in GoodHeaders(ld), p \in SeqsUpTo(PayloadBytes, 1)}

InitShort == InitLoadFrom([ld \in Loaders |-> ShortFiles(ld)])

\* a pass of the header loop when the input is exhausted
EofPass == pc = "header" /\ file_iter = Len(file) /\ ReadHeaderLine

\* load_* runs on one thread that nothing suspends: a pass of the header
\* loop that can be taken is taken.  The passes before the end of the input
\* are finitely many, so fairness is asked of the passes at its end.
FairLoadSpec == InitShort /\ [][NextLoad]_vars /\ WF_vars(EofPass)

---------------------------------------------------------------------------
\* What the claims read.

\* the number of channels of a pixel of an image
DepthOf(self) ==
    CASE self.class = PBM -> 1
      [] self.class = PGM -> 1
      [] self.class = PPM -> 3
      [] OTHER -> self.depth

\* the channel values of the pixel at row r, column c (1-based) of an image
Channels(self, r, c) == ArgChannels(self.class, self.pixels[r][c])

\* the number of decimal digits of n <= 65535
Digits(n) ==
    IF n < 10 THEN 1 ELSE IF n < 100 THEN 2 ELSE IF n < 1000 THEN 3
    ELSE IF n < 10000 THEN 4 ELSE 5

\* the header the raw form of an image starts with
RawHeader(self) ==
    CASE self.class = PBM -> RawHeaderPBM(self)
      [] self.class = PGM -> RawHeaderPGM(self)
      [] self.class = PPM -> RawHeaderPPM(self)
      [] OTHER -> RawHeaderPAM(self)

\* the bytes of to_raw after the header
RawPayload(self) ==
    SubSeq(to_raw(self), Len(RawHeader(self)) + 1, Len(to_raw(self)))

\* the image is a grid of height rows of width pixels
Rectangular(self) ==
    /\ Len(self.pixels) = self.height
    /\ \A r \in 1..Len(self.pixels) : Len(self.pixels[r]) = self.width

---------------------------------------------------------------------------
\* C1: binary round-trip.  Loading the bytes to_raw wrote, with the load_* of
\* the image's type, returns an image with the same width, height, max_val
\* and sample grid as the image that was saved.
C1_RoundTrip ==
    pc \in {"returned", "panicked"} =>
        /\ pc = "returned"
        /\ loaded.width = img.width
        /\ loaded.height = img.height
        /\ MaxValOf(loaded) = MaxValOf(img)
        /\ loaded.pixels = img.pixels

\* C2: rejected writes are no-ops.  A set_pixel call with x >= width or
\* y >= height or a channel value above max_val leaves the image (width,
\* height, max_val, every sample) as it was and raises no error; get_pixel
\* at a coordinate with x >= width or y >= height returns None.
C2_RejectedWritesAreNoOps ==
    /\ [][(nwrites' = nwrites + 1 /\ ~last_ok') => (img' = img /\ pc' = pc)]_vars
    /\ [](\A x \in XArgs(img.width), y \in YArgs(img.height) :
            (x >= img.width \/ y >= img.height) => get_pixel(img, x, y) = None)

\* C2 witness: a set_pixel call out of bounds or out of range was made on an
\* image that has pixels
C2_Witness == nwrites > 0 /\ ~last_ok /\ img.width > 0 /\ img.height > 0

\* C3: the image invariant.  After any sequence of set_pixel calls the grid
\* has height rows of width pixels of depth channel values, each at most
\* max_val, and width, height, depth and max_val are the constructor's.
C3_ImageInvariant ==
    /\ [](/\ Rectangular(img)
          /\ \A r \in 1..Len(img.pixels) : \A c \in 1..Len(img.pixels[r]) :
                /\ Len(Channels(img, r, c)) = DepthOf(img)
                /\ \A i \in 1..Len(Channels(img, r, c)) :
                      Channels(img, r, c)[i] \in 0..MaxValOf(img))
    /\ [][/\ img'.class = img.class
          /\ img'.width = img.width
          /\ img'.height = img.height
          /\ DepthOf(img') = DepthOf(img)
          /\ MaxValOf(img') = MaxValOf(img)]_vars

\* C3 witness: an arbitrary map that set_pixel calls were made on, one of
\* which stored a colour
C3_Witness ==
    /\ img.class = PAM /\ nwrites = MaxWrites
    /\ \E r \in 1..img.height, c \in 1..img.width :
          \E i \in 1..img.depth : img.pixels[r][c][i] > 0

\* ceil(w / 8)
RowBytes(w) == (w + 7) \div 8

\* C4: bitmap bit-packing.  The payload of to_raw of a bitmap has
\* height * ceil(width / 8) bytes, row r owns bytes r * ceil(width / 8) ..
\* (r + 1) * ceil(width / 8) - 1, pixel i of a row is bit 7 - i mod 8 of the
\* row's byte i div 8, and the unused low bits of a row's last byte are zero.
C4_BitPacking ==
    img.class = PBM =>
        LET p == RawPayload(img)
            n == RowBytes(img.width)
        IN /\ Len(p) = img.height * n
           /\ \A r \in 0..(img.height - 1) :
                 /\ \A i \in 0..(img.width - 1) :
                       Bit(p[r * n + (i \div 8) + 1], 7 - (i % 8))
                           = (IF img.pixels[r + 1][i + 1] THEN 1 ELSE 0)
                 /\ \A i \in img.width..(8 * n - 1) :
                       Bit(p[r * n + (i \div 8) + 1], 7 - (i % 8)) = 0

\* the number of bytes of a sample in the raw form
SampleLen(self) == IF self.max_val > 255 THEN 2 ELSE 1

\* C5: multi-bit sample packing.  The payload of to_raw of a graymap, pixmap
\* or arbitrary map follows the header and is the row-major, channel-ordered
\* sequence of the channel values, each written as the two bytes
\* [v >> 8, v & 0xFF] when max_val > 255 and as the byte v otherwise;
\* it has width * height * depth * (2 or 1) bytes and nothing follows it.
C5_SamplePacking ==
    img.class # PBM =>
        LET p == RawPayload(img)
            k == SampleLen(img)
            d == DepthOf(img)
        IN /\ SubSeq(to_raw(img), 1, Len(RawHeader(img))) = RawHeader(img)
           /\ Len(p) = img.width * img.height * d * k
           /\ \A r \in 0..(img.height - 1), c \in 0..(img.width - 1), i \in 0..(d - 1) :
                 LET v == Channels(img, r + 1, c + 1)[i + 1]
                     o == ((r * img.width + c) * d + i) * k
                 IN IF k = 2
                    THEN /\ p[o + 1] = v \div 256
                         /\ p[o + 2] = v % 256
                         /\ p[o + 1] * 256 + p[o + 2] = v
                    ELSE p[o + 1] = v

\* C5 witness: a graymap with two-byte samples holds a value whose high and
\* low bytes differ
C5_Witness ==
    /\ img.class = PGM /\ img.max_val > 255
    /\ \E r \in 1..img.height, c \in 1..img.width : img.pixels[r][c] = 256

RECURSIVE TokensIn(_, _, _, _)
\* the maximal runs of bytes other than sep that start in lo..hi, by halves
TokensIn(s, sep, lo, hi) ==
    IF lo > hi THEN <<>>
    ELSE IF lo = hi
         THEN IF s[lo] # sep /\ (lo = 1 \/ s[lo - 1] = sep)
              THEN <<SubSeq(s, lo, Find(s, sep, lo) - 1)>>
              ELSE <<>>
    ELSE TokensIn(s, sep, lo, (lo + hi) \div 2)
         \o TokensIn(s, sep, (lo + hi) \div 2 + 1, hi)

\* the pieces of s between the bytes sep that are not empty
Tokens(s, sep) == TokensIn(s, sep, 1, Len(s))

\* the channel values of row r of an image, left to right
RowValues(self, r) ==
    [k \in 1..(self.width * DepthOf(self)) |->
        Channels(self, r, ((k - 1) \div DepthOf(self)) + 1)[((k - 1) % DepthOf(self)) + 1]]

\* the lines of a comment
CommentLines(comment) == IF comment = None THEN <<>> ELSE Split(comment[1], 10)

\* the number of lines of the text form before the rows
HeadLines(self, comment) ==
    1 + Len(CommentLines(comment)) + 1 + (IF self.class = PBM THEN 0 ELSE 1)

\* out, cut at its newlines, is the magic line, the comment lines each
\* after "# ", the line "<width> <height>", the line "<max_val>" unless the
\* image is a bitmap, one line for every row holding the decimal channel
\* values of the row in order, and nothing after the last newline
Layout(self, comment, out) ==
    LET lines == Split(out, 10)
        cl == CommentLines(comment)
        nh == HeadLines(self, comment)
        nr == IF self.height = 0 THEN 1 ELSE self.height
    IN /\ Len(lines) = nh + nr + 1
       /\ lines[1] = <<80, CASE self.class = PBM -> 49
                             [] self.class = PGM -> 50
                             [] OTHER -> 51>>
       /\ \A j \in 1..Len(cl) : lines[1 + j] = <<35, 32>> \o cl[j]
       /\ lines[Len(cl) + 2] = Dec(self.width) \o <<32>> \o Dec(self.height)
       /\ self.class # PBM => lines[nh] = Dec(self.max_val)
       /\ \A r \in 1..self.height :
             LET vs == RowValues(self, r)
             IN Tokens(lines[nh + r], 32) = [k \in 1..Len(vs) |-> Dec(vs[k])]
       /\ self.height = 0 => lines[nh + 1] = <<>>
       /\ lines[nh + nr + 1] = <<>>

\* the 2x2 bitmap with pixels 0 1 / 1 0
Bitmap2x2 ==
    [class |-> PBM, width |-> 2, height |-> 2,
     pixels |-> <<<<FALSE, TRUE>>, <<TRUE, FALSE>>>>]

\* C6: text-form layout.  to_ascii of a bitmap, graymap or pixmap with an
\* optional comment is the ascii magic, the comment lines each starting with
\* "# ", "<width> <height>", "<max_val>" for graymap and pixmap only, the
\* rows top to bottom with their fields in order, and a final newline; the
\* 2x2 bitmap 0 1 / 1 0 without comment gives "P1\n2 2\n0 1\n1 0\n".
C6_TextLayout ==
    pc = "saved_ascii" =>
        /\ Layout(img, ascii_comment, file)
        /\ (img = Bitmap2x2 /\ ascii_comment = None)
              => file = <<80, 49, 10, 50, 32, 50, 10, 48, 32, 49, 10, 49, 32, 48, 10>>

\* C6 witness: a pixmap that set_pixel wrote to was saved in text form with
\* a comment of more than one line
C6_Witness ==
    /\ pc = "saved_ascii" /\ img.class = PPM /\ nwrites > 0
    /\ img.width > 0 /\ img.height > 1 /\ ascii_comment # None
    /\ Cardinality({i \in 1..(Len(file) - 2) :
                        SubSeq(file, i, i + 2) = <<10, 35, 32>>}) > 1

\* the lines of to_ascii without comment that hold the rows
RowLines(self) ==
    LET lines == Split(to_ascii(self, None), 10)
    IN [r \in 1..self.height |-> lines[HeadLines(self, None) + r]]

\* C7: ASCII field alignment.  Every sample field to_ascii writes for a
\* graymap or pixmap is as many characters wide as max_val has decimal
\* digits, the value right-aligned after spaces, fields one space apart; a
\* bitmap's fields are the single characters 0 and 1.
C7_FieldAlignment ==
    img.class \in {PBM, PGM, PPM} =>
        LET len == IF img.class = PBM THEN 1 ELSE Digits(img.max_val)
            rows == RowLines(img)
        IN \A r \in 1..img.height :
              LET line == rows[r]
                  vs == RowValues(img, r)
              IN /\ Len(line) = (IF vs = <<>> THEN 0 ELSE Len(vs) * (len + 1) - 1)
                 /\ \A k \in 1..Len(vs) :
                       LET o == (k - 1) * (len + 1)
                           d == Dec(vs[k])
                       IN /\ Len(d) <= len
                          /\ SubSeq(line, o + 1, o + len)
                                = [i \in 1..(len - Len(d)) |-> 32] \o d
                          /\ k < Len(vs) => line[o + len + 1] = 32

\* C7 witness: a graymap with max_val 65535 holds a written value of fewer
\* than five digits
C7_Witness ==
    /\ img.class = PGM /\ img.max_val = 65535 /\ nwrites > 0
    /\ \E r \in 1..img.height, c \in 1..img.width : img.pixels[r][c] = 256

\* C8: missing dimensions are fatal.  When the input ends before the header
\* gave both a width and a height, load_* aborts: it terminates with a
\* fatal error, it does not run forever and returns no image.
C8_MissingDimensionsAbort ==
    (pc = "header" /\ file_iter = Len(file) /\ (width = None \/ height = None))
        ~> (pc = "panicked")

\* C9: no partial or malformed image from decode.  load_* aborts or returns
\* an image whose grid has exactly height rows of exactly width pixels.
C9_NoPartialImage ==
    pc = "returned" => /\ Rectangular(loaded)
                       /\ loaded.width = width[1]
                       /\ loaded.height = height[1]

\* the header loop is over
HeaderDone == pc = "maxval" \/ (pc = "payload" /\ loader = PBM)

\* the header lines load_* has read so far
LinesRead ==
    LET n0 == MagicEq(file, BinaryMagic(loader)).n
        read == SubSeq(file, n0 + 1, file_iter)
    IN IF read = <<>> THEN <<>>
       ELSE IF read[Len(read)] = 10
            THEN SubSeq(Split(read, 10), 1, Len(Split(read, 10)) - 1)
            ELSE Split(read, 10)

\* the integer the k-th piece of a line parses to, if any
PieceValue(line, k) ==
    IF Len(Split(line, 32)) < k THEN None ELSE parse_usize(Split(line, 32)[k])

\* the integer of the k-th piece of the last of the lines whose k-th piece
\* parses, if any
LastValue(lines, k) ==
    LET S == {i \in 1..Len(lines) : PieceValue(lines[i], k) # None}
    IN IF S = {} THEN None
       ELSE PieceValue(lines[CHOOSE i \in S : \A j \in S : j <= i], k)

\* the integers the pieces of the lines parse to, in reading order
ParsedPieces(lines) ==
    Concat([i \in 1..Len(lines) |->
              Concat([k \in 1..Len(Split(lines[i], 32)) |-> PieceValue(lines[i], k)])])

\* C10 as stated: the first two pieces that parse as integers, counted
\* across all lines and all positions, become width and then height; "7\n9\n"
\* yields width 7 and height 9.
C10_FirstTwoIntegers ==
    HeaderDone =>
        /\ Len(ParsedPieces(LinesRead)) >= 2
        /\ width = Some(ParsedPieces(LinesRead)[1])
        /\ height = Some(ParsedPieces(LinesRead)[2])

\* C10 as the code has it: of every header line only the first piece can set
\* width and only the second piece can set height; a later line whose piece
\* parses replaces the value of an earlier line; the loop ends after the
\* first line at whose end both are set.  "7\n9\n" leaves width 9 and no
\* height.
C10_PerLinePositions ==
    (pc = "header" \/ HeaderDone) =>
        /\ width = LastValue(LinesRead, 1)
        /\ height = LastValue(LinesRead, 2)
        /\ pc = "header" => width = None \/ height = None
        /\ HeaderDone =>
              /\ width # None /\ height # None
              /\ \A m \in 0..(Len(LinesRead) - 1) :
                    \/ LastValue(SubSeq(LinesRead, 1, m), 1) = None
                    \/ LastValue(SubSeq(LinesRead, 1, m), 2) = None
        /\ LinesRead \in {<<<<55>>, <<57>>>>, <<<<>>, <<55>>, <<57>>>>}
              => width = Some(9) /\ height = None

\* C10 witness: the header loop ended with a width that replaced the
\* integer an earlier line gave
C10_Witness ==
    /\ HeaderDone
    /\ \E i \in 1..(Len(LinesRead) - 1) :
          /\ PieceValue(LinesRead[i], 1) # None
          /\ PieceValue(LinesRead[i], 1) # width

---------------------------------------------------------------------------
\* load_* as a function of the file.

RECURSIVE HeaderLoop(_, _, _, _)
\* the loop `while width.is_none() || height.is_none()` from n bytes
\* consumed: where it ends and with which width and height, a panic, or
\* "spins" when the input is exhausted before both are set
HeaderLoop(f, n, w, h) ==
    IF w # None /\ h # None
    THEN [end |-> "done", n |-> n, width |-> w, height |-> h]
    ELSE LET r == HeaderLine(f, n, w, h)
         IN IF r.panic THEN [end |-> "panic", n |-> r.n, width |-> w, height |-> h]
            ELSE IF n = Len(f) /\ (r.width = None \/ r.height = None)
            THEN [end |-> "spins", n |-> n, width |-> r.width, height |-> r.height]
            ELSE HeaderLoop(f, r.n, r.width, r.height)

\* the header of load_*: the magic, the header loop and, for load_pgm and
\* load_ppm, the max_val line; n is where the payload starts
ReadHeader(ld, f) ==
    LET mg == MagicEq(f, BinaryMagic(ld))
        hl == HeaderLoop(f, mg.n, None, None)
        mv == ReadMaxValLine(f, hl.n)
    IN IF hl.end # "done"
       THEN [end |-> hl.end, is_binary |-> mg.eq, n |-> hl.n, width |-> 0,
             height |-> 0, max_val |-> 0]
       ELSE IF ld = PBM
       THEN [end |-> "done", is_binary |-> mg.eq, n |-> hl.n,
             width |-> hl.width[1], height |-> hl.height[1], max_val |-> 0]
       ELSE [end |-> IF mv.panic THEN "panic" ELSE "done", is_binary |-> mg.eq,
             n |-> mv.n, width |-> hl.width[1], height |-> hl.height[1],
             max_val |-> mv.max_val]

\* the words of the text payload of file f that starts after n bytes
PayloadWords(f, n) == split_whitespace(SubSeq(f, n + 1, Len(f)))

\* the words of ws that parse as a sample
Parseable(ws) == SelectSeq(ws, LAMBDA t : parse_u16(t) # None)

\* the file went through the header of load_pgm or load_ppm into the text
\* branch of the payload, and the payload loop has run
TextPayloadRead ==
    /\ pc \in {"returned", "panicked"}
    /\ loader \in {PGM, PPM}
    /\ ReadHeader(loader, file).end = "done"
    /\ ~ReadHeader(loader, file).is_binary
    /\ ValidUtf8(SubSeq(file, ReadHeader(loader, file).n + 1, Len(file)))

\* C11: unparseable ASCII tokens are skipped without effect.  In the text
\* branch of load_pgm and load_ppm the decoded grid is the grid decoded from
\* the payload without the tokens that fail to parse, and num_bits never
\* goes below zero: the loop with overflow checks on does not panic.
C11_UnparseableSkipped ==
    TextPayloadRead =>
        LET hd == ReadHeader(loader, file)
            ws == PayloadWords(file, hd.n)
            ctx == [width |-> hd.width, height |-> hd.height,
                    max_val |-> hd.max_val, checks |-> TRUE]
            all == PayloadLoop(loader, FALSE, PayloadInit(loader), ws, 1, Len(ws), ctx)
            kept == PayloadLoop(loader, FALSE, PayloadInit(loader), Parseable(ws),
                                1, Len(Parseable(ws)), ctx)
        IN /\ all # Panic
           /\ pc = "returned"
           /\ loaded.pixels = kept.pixels

\* the step is the call set_pixel(x, y, v) on the image
SetPixelCall(x, y, v) ==
    CASE img.class = PBM -> SetPixelPBM(x, y, v)
      [] img.class = PGM -> SetPixelPGM(x, y, v)
      [] img.class = PPM -> SetPixelPPM(x, y, v)
      [] OTHER -> SetPixelPAM(x, y, v)

\* the values set_pixel is called with on an image
ValueArgs(self) ==
    CASE self.class = PBM -> BOOLEAN
      [] self.class = PGM -> SampleArgs
      [] self.class = PPM -> ColorArgs
      [] OTHER -> PamColorArgs

\* the pixel of a freshly constructed image: false, 0, or depth zeros
ZeroPixel(self) ==
    CASE self.class = PBM -> FALSE
      [] self.class = PGM -> 0
      [] OTHER -> [i \in 1..DepthOf(self) |-> 0]

\* C12: set_pixel/get_pixel agreement.  After set_pixel(x, y, v) with x and
\* y inside the image and every channel of v at most max_val (for NetPAM
\* exactly depth channels), get_pixel(x, y) returns v and get_pixel at every
\* other coordinate inside the image returns what it returned before; on a
\* freshly constructed image get_pixel returns zero everywhere inside.
C12_SetGetAgree ==
    /\ [](nwrites = 0 =>
            \A x \in 0..(img.width - 1), y \in 0..(img.height - 1) :
                get_pixel(img, x, y) = Some(ZeroPixel(img)))
    /\ [][\A x \in XArgs(img.width), y \in YArgs(img.height), v \in ValueArgs(img) :
            (/\ nwrites' = nwrites + 1
             /\ ArgsOk(img, x, y, v)
             /\ SetPixelCall(x, y, v))
            => /\ get_pixel(img', x, y) = Some(v)
               /\ \A x2 \in 0..(img.width - 1), y2 \in 0..(img.height - 1) :
                     (x2 # x \/ y2 # y)
                         => get_pixel(img', x2, y2) = get_pixel(img, x2, y2)]_vars

\* C12 witness: a pixmap after an accepted set_pixel that changed a pixel in
\* a row below the first
C12_Witness ==
    /\ img.class = PPM /\ nwrites > 0 /\ last_ok
    /\ \E y \in 1..(img.height - 1), x \in 0..(img.width - 1) :
          get_pixel(img, x, y) # Some(<<0, 0, 0>>)

---------------------------------------------------------------------------
\* load_pbm / load_pgm / load_ppm of the file f in a build with or without
\* overflow checks: how the call ends ("returned", "panic", or "spins" in
\* the header loop) and the image it returns
load(ld, f, checks) ==
    LET hd == ReadHeader(ld, f)
        ctx == [width |-> hd.width, height |-> hd.height,
                max_val |-> hd.max_val, checks |-> checks]
        st == ReadPayload(ld, hd.is_binary, f, hd.n, ctx)
    IN IF hd.end # "done" THEN [end |-> hd.end, image |-> NoImage]
       ELSE IF st = Panic THEN [end |-> "panic", image |-> NoImage]
       ELSE [end |-> "returned",
             image |-> Returned(ld, hd.width, hd.height, hd.max_val, st.pixels)]

\* the raw file of a bitmap or graymap has been saved and load_* has ended
RawLoadEnded ==
    pc \in {"returned", "panicked"} /\ loader \in {PBM, PGM}

\* loading the raw file returned and to_raw of the loaded image is the file
RawReproduced ==
    /\ pc = "returned"
    /\ loader = PBM => ~PackRows([panic |-> FALSE, bytes |-> <<>>], loaded.pixels, 0).panic
    /\ to_raw(loaded) = file

\* loading the text of the image without comment returns and to_ascii of the
\* loaded image is that text
AsciiReproduced ==
    LET text == to_ascii(img, None)
        r == load(img.class, text, overflow_checks)
    IN r.end = "returned" /\ to_ascii(r.image, None) = text

\* C13: load-then-save reproduces the file.  For every bitmap and graymap
\* built through the construction API, load_* of the bytes of to_raw
\* returns and to_raw of the loaded image is the same bytes, and load_* of
\* the text of to_ascii(None) returns and to_ascii(None) of the loaded
\* image is the same text.
C13_LoadSaveReproduces ==
    RawLoadEnded => (RawReproduced /\ AsciiReproduced)

\* the width, height and max_val load_* reads from the header of file f
\* (a bitmap has no max_val), or that the header does not end
DecodedHeader(ld, f) ==
    LET hd == ReadHeader(ld, f)
    IN IF hd.end # "done" THEN [end |-> hd.end]
       ELSE IF ld = PBM
       THEN [end |-> "done", width |-> hd.width, height |-> hd.height]
       ELSE [end |-> "done", width |-> hd.width, height |-> hd.height,
             max_val |-> hd.max_val]

\* the width, height and max_val of the image itself
OwnHeader(self) ==
    IF self.class = PBM
    THEN [end |-> "done", width |-> self.width, height |-> self.height]
    ELSE [end |-> "done", width |-> self.width, height |-> self.height,
          max_val |-> self.max_val]

\* C14: comments do not change the decoded header.  For every bitmap,
\* graymap and pixmap and every comment, the header load_* decodes from the
\* text of to_ascii(Some(comment)) is the header it decodes from the text
\* of to_ascii(None): the image's own width, height and max_val.
\* (save_ascii is called on every image with every comment and with None,
\* and file is the text it wrote.)
C14_CommentsKeepHeader ==
    pc = "saved_ascii" => DecodedHeader(img.class, file) = OwnHeader(img)

\* C14 witness: a graymap saved with a comment that has lines of integers
\* and an empty line ("7 8\n\n9")
C14_Witness ==
    /\ pc = "saved_ascii" /\ img.class = PGM
    /\ ascii_comment = Some(<<55, 32, 56, 10, 10, 57>>)
    /\ img.width # 7 /\ img.height \notin {7, 8, 9}

====
